---- MODULE Spec2Model ----
(***************************************************************************)
(* Model of src/app.py: the World Bank PPG bilateral debt dashboard.       *)
(* One run of the script is a sequence of steps: the per-country load      *)
(* loop, the load guard, preprocess_data, the sidebar controls, the        *)
(* filter, the selection guard, the four key metrics, the five tabs.       *)
(*                                                                         *)
(* Numbers are IEEE binary64 values, computed bit for bit: a value is a    *)
(* record [k, s, m, e] with k in "num" (the finite value s * m * 2^e),     *)
(* "nan", "inf", "-inf", or "str" (text read from a spreadsheet cell).     *)
(***************************************************************************)
EXTENDS Integers, Sequences, FiniteSets, TLC

VARIABLES pc, i, read, errors, loaded, all_data, exception, shown, invoked,
          selected_countries, year_range, filtered_data,
          total_debt, avg_growth, avg_debt, max_debt_year, top_debtor,
          growth_stats, country_totals, comparison_data, peak_periods, report

vars == <<pc, i, read, errors, loaded, all_data, exception, shown, invoked,
          selected_countries, year_range, filtered_data,
          total_debt, avg_growth, avg_debt, max_debt_year, top_debtor,
          growth_stats, country_totals, comparison_data, peak_periods, report>>

None == "None"

(***************************************************************************)
(* Floating point values: IEEE binary64, as numpy and pandas compute.      *)
(* A finite value is s * m * 2^e with s the sign (0 for zero), m an odd    *)
(* integer below 2^53 and e its exponent; m is written in limbs of         *)
(* LIMB_BITS bits, least significant first (<<>> is 0).  A result of       *)
(* 2^1024 or more is an infinity; the sign of zero and subnormals are      *)
(* left out.                                                               *)
(***************************************************************************)
Abs(x) == IF x < 0 THEN -x ELSE x

LIMB_BITS == 10
LIMB == 2^LIMB_BITS
PRECISION == 53
MAX_EXP == 1024

RECURSIVE BigOfInt(_)
BigOfInt(n) == IF n = 0 THEN <<>> ELSE <<n % LIMB>> \o BigOfInt(n \div LIMB)

RECURSIVE BigToInt(_)
BigToInt(a) == IF a = <<>> THEN 0 ELSE Head(a) + LIMB * BigToInt(Tail(a))

RECURSIVE BigTrim(_)
BigTrim(a) ==
    IF a # <<>> /\ a[Len(a)] = 0 THEN BigTrim(SubSeq(a, 1, Len(a) - 1)) ELSE a

RECURSIVE BigAddC(_, _, _)
BigAddC(a, b, c) ==
    IF b = <<>> /\ c = 0 THEN a
    ELSE IF a = <<>> /\ c = 0 THEN b
    ELSE IF a = <<>> /\ b = <<>> THEN <<c>>
    ELSE LET x == IF a = <<>> THEN 0 ELSE Head(a)
             y == IF b = <<>> THEN 0 ELSE Head(b)
             t == x + y + c
         IN  <<t % LIMB>> \o BigAddC(IF a = <<>> THEN a ELSE Tail(a),
                                      IF b = <<>> THEN b ELSE Tail(b), t \div LIMB)

BigAdd(a, b) == BigAddC(a, b, 0)

\* a - b for a >= b
RECURSIVE BigSubB(_, _, _)
BigSubB(a, b, c) ==
    IF a = <<>> THEN <<>>
    ELSE LET y == IF b = <<>> THEN 0 ELSE Head(b)
             t == Head(a) - y - c
         IN  <<IF t < 0 THEN t + LIMB ELSE t>>
                \o BigSubB(Tail(a), IF b = <<>> THEN b ELSE Tail(b), IF t < 0 THEN 1 ELSE 0)

BigSub(a, b) == BigTrim(BigSubB(a, b, 0))

RECURSIVE BigCmpAt(_, _, _)
BigCmpAt(a, b, j) ==
    IF j = 0 THEN 0
    ELSE IF a[j] # b[j] THEN (IF a[j] < b[j] THEN -1 ELSE 1)
    ELSE BigCmpAt(a, b, j - 1)

\* -1, 0 or 1 as a < b, a = b or a > b
BigCmp(a, b) ==
    IF Len(a) # Len(b) THEN (IF Len(a) < Len(b) THEN -1 ELSE 1)
    ELSE BigCmpAt(a, b, Len(a))

\* a * k for a positive k below 2^21
RECURSIVE BigMulC(_, _, _)
BigMulC(a, k, c) ==
    IF a = <<>> THEN BigOfInt(c)
    ELSE LET t == Head(a) * k + c
         IN  <<t % LIMB>> \o BigMulC(Tail(a), k, t \div LIMB)

BigMulSmall(a, k) == IF k = 1 THEN a ELSE BigMulC(a, k, 0)

RECURSIVE BigMul(_, _)
BigMul(a, b) ==
    IF a = <<>> \/ b = <<>> THEN <<>>
    ELSE LET r == BigMul(a, Tail(b))
         IN  BigAdd(IF Head(b) = 0 THEN <<>> ELSE BigMulSmall(a, Head(b)),
                    IF r = <<>> THEN r ELSE <<0>> \o r)

\* quotient and remainder of a by a positive k below 2^21
RECURSIVE BigDivRem(_, _)
BigDivRem(a, k) ==
    IF a = <<>> THEN [q |-> <<>>, r |-> 0]
    ELSE LET hi == BigDivRem(Tail(a), k)
             cur == hi.r * LIMB + Head(a)
         IN  [q |-> IF hi.q = <<>> /\ cur < k THEN <<>> ELSE <<cur \div k>> \o hi.q,
              r |-> cur % k]

\* a * 2^n
BigShl(a, n) ==
    IF a = <<>> THEN a
    ELSE [j \in 1..(n \div LIMB_BITS) |-> 0] \o BigMulSmall(a, 2^(n % LIMB_BITS))

\* a \div 2^n, and whether a nonzero bit was shifted out
BigShr(a, n) ==
    LET w == IF n \div LIMB_BITS < Len(a) THEN n \div LIMB_BITS ELSE Len(a)
        d == BigDivRem(SubSeq(a, w + 1, Len(a)), 2^(n % LIMB_BITS))
    IN  [q |-> d.q, sticky |-> d.r # 0 \/ \E j \in 1..w : a[j] # 0]

RECURSIVE Bits(_)
Bits(x) == IF x = 0 THEN 0 ELSE 1 + Bits(x \div 2)

\* the bit length of every limb, tabulated
LimbBits == [x \in 0..(LIMB - 1) |-> Bits(x)]

BitLen(a) == IF a = <<>> THEN 0 ELSE LIMB_BITS * (Len(a) - 1) + LimbBits[a[Len(a)]]

Zero == [k |-> "num", s |-> 0, m |-> <<>>, e |-> 0]
NaN == [k |-> "nan", s |-> 0, m |-> <<>>, e |-> 0]
Inf == [k |-> "inf", s |-> 0, m |-> <<>>, e |-> 0]
NegInf == [k |-> "-inf", s |-> 0, m |-> <<>>, e |-> 0]
Text == [k |-> "str", s |-> 0, m |-> <<>>, e |-> 0]

\* the number of trailing zero bits of a positive integer
RECURSIVE TrailingZeros(_)
TrailingZeros(x) == IF x % 2 = 1 THEN 0 ELSE 1 + TrailingZeros(x \div 2)

PackShifted(s, N, E, t) == [k |-> "num", s |-> s, m |-> BigDivRem(N, 2^t).q, e |-> E + t]

\* the value s * N * 2^E of an N below 2^53, with its mantissa made odd
RECURSIVE Pack(_, _, _)
Pack(s, N, E) ==
    IF N = <<>> THEN Zero
    ELSE IF Head(N) = 0 THEN Pack(s, Tail(N), E + LIMB_BITS)
    ELSE IF Head(N) % 2 = 0 THEN PackShifted(s, N, E, TrailingZeros(Head(N)))
    ELSE [k |-> "num", s |-> s, m |-> N, e |-> E]

\* a rounded value of 2^1024 or more overflows to an infinity
Finite(a) ==
    IF a.k = "num" /\ a.s # 0 /\ BitLen(a.m) + a.e > MAX_EXP
    THEN (IF a.s > 0 THEN Inf ELSE NegInf)
    ELSE a

\* the last step of rounding: q is the quotient and remainder by 2 of the
\* 54 leading bits, st says that a nonzero bit lies below them
RoundHalf(s, q, E, st) ==
    Pack(s, IF q.r = 1 /\ (st \/ Head(q.q) % 2 = 1) THEN BigAdd(q.q, <<1>>) ELSE q.q, E)

RoundShifted(s, sh, E, sticky) == RoundHalf(s, BigDivRem(sh.q, 2), E, sh.sticky \/ sticky)

\* Round for an N of len bits
RoundBits(s, N, E, sticky, len) ==
    IF len <= PRECISION THEN Pack(s, N, E)
    ELSE RoundShifted(s, BigShr(N, len - PRECISION - 1), E + len - PRECISION, sticky)

\* s * (N + f) * 2^E rounded to 53 bits, to nearest and ties to even;
\* sticky says that the fraction f, 0 <= f < 1, is not zero
Round(s, N, E, sticky) == Finite(RoundBits(s, N, E, sticky, BitLen(N)))

\* the float x * 2^E of a machine integer x
NumAt(x, E) == Pack(IF x < 0 THEN -1 ELSE 1, BigOfInt(Abs(x)), E)

\* the float of a machine integer
Num(x) == NumAt(x, 0)

\* a mantissa shifted left by sh bits fits a machine word, and the word
WORD_BITS == 30
Fits(a, sh) == BitLen(a.m) + sh <= WORD_BITS
Word(a, sh) == a.s * BigToInt(a.m) * 2^sh

IsNaN(a) == a.k = "nan"
IsNum(a) == a.k = "num"

\* a whole number of at most 30 bits, and its value
IsInt(a) == IsNum(a) /\ a.e >= 0 /\ BitLen(a.m) + a.e <= 30
IntValue(a) == a.s * BigToInt(BigShl(a.m, a.e))

\* the mantissas of two finite nonzero values over the common exponent e0
AlignedAt(a, b, e0) ==
    [x |-> BigShl(a.m, a.e - e0), y |-> BigShl(b.m, b.e - e0), e |-> e0]

\* sign and size of sa * x + sb * y for opposite signs, c comparing x and y
Difference(sa, sb, al, c) ==
    IF c = 0 THEN [s |-> 0, n |-> <<>>]
    ELSE IF c > 0 THEN [s |-> sa, n |-> BigSub(al.x, al.y)]
    ELSE [s |-> sb, n |-> BigSub(al.y, al.x)]

RoundSigned(r, E) == Round(r.s, r.n, E, FALSE)

AddAligned(sa, sb, al) ==
    RoundSigned(IF sa = sb THEN [s |-> sa, n |-> BigAdd(al.x, al.y)]
                ELSE Difference(sa, sb, al, BigCmp(al.x, al.y)), al.e)

\* the sum over the common exponent e0: one machine addition, exact, when
\* both mantissas fit a word there, else on the aligned mantissas
AddAt(a, b, e0) ==
    IF Fits(a, a.e - e0) /\ Fits(b, b.e - e0)
    THEN Finite(NumAt(Word(a, a.e - e0) + Word(b, b.e - e0), e0))
    ELSE AddAligned(a.s, b.s, AlignedAt(a, b, e0))

FAdd(a, b) ==
    IF IsNaN(a) \/ IsNaN(b) THEN NaN
    ELSE IF IsNum(a) /\ IsNum(b) THEN
        IF a.s = 0 THEN b
        ELSE IF b.s = 0 THEN a
        ELSE AddAt(a, b, IF a.e < b.e THEN a.e ELSE b.e)
    ELSE IF IsNum(a) THEN b
    ELSE IF IsNum(b) THEN a
    ELSE IF a.k = b.k THEN a
    ELSE NaN

FNeg(a) ==
    IF IsNum(a) THEN [a EXCEPT !.s = -a.s]
    ELSE IF a.k = "inf" THEN NegInf
    ELSE IF a.k = "-inf" THEN Inf
    ELSE a

FSub(a, b) == FAdd(a, FNeg(b))

Sign(a) ==
    IF a.k = "inf" THEN 1
    ELSE IF a.k = "-inf" THEN -1
    ELSE a.s

FAbs(a) == IF Sign(a) < 0 THEN FNeg(a) ELSE a

FMul(a, b) ==
    IF IsNaN(a) \/ IsNaN(b) THEN NaN
    ELSE IF IsNum(a) /\ IsNum(b) THEN
        IF a.s = 0 \/ b.s = 0 THEN Zero
        ELSE IF BitLen(a.m) + BitLen(b.m) <= WORD_BITS
        THEN Finite(NumAt(a.s * b.s * BigToInt(a.m) * BigToInt(b.m), a.e + b.e))
        ELSE Round(a.s * b.s, BigMul(a.m, b.m), a.e + b.e, FALSE)
    ELSE IF Sign(a) * Sign(b) > 0 THEN Inf
    ELSE IF Sign(a) * Sign(b) < 0 THEN NegInf
    ELSE NaN

RoundQuotient(s, d, E) == Round(s, d.q, E, d.r # 0)

\* one quotient bit of long division by y: p.x is the running remainder,
\* below 2 * y, and p.q the bits found so far
DivStep(p, y) ==
    IF BigCmp(p.x, y) >= 0
    THEN [x |-> BigShl(BigSub(p.x, y), 1), q |-> BigAdd(BigShl(p.q, 1), <<1>>)]
    ELSE [x |-> BigShl(p.x, 1), q |-> BigShl(p.q, 1)]

\* n steps, the first half of them first; with no remainder left the
\* quotient's remaining bits are zero
RECURSIVE DivLoop(_, _, _)
DivLoop(p, y, n) ==
    IF p.x = <<>> THEN [x |-> <<>>, q |-> BigShl(p.q, n)]
    ELSE IF n = 1 THEN DivStep(p, y)
    ELSE DivLoop(DivLoop(p, y, n \div 2), y, n - n \div 2)

DivResult(p) == [q |-> p.q, r |-> IF p.x = <<>> THEN 0 ELSE 1]

\* the quotient of two mantissas x and y, x being k bits longer than y
DivAligned(s, x, y, k, E) ==
    RoundQuotient(s, DivResult(DivLoop([x |-> BigShl(x, IF k < 0 THEN -k ELSE 0), q |-> <<>>],
                                       BigShl(y, IF k > 0 THEN k ELSE 0), PRECISION + 3)),
                  E + k - PRECISION - 2)

\* IEEE division: x/0 is +-inf, 0/0 is nan.  A divisor whose odd mantissa
\* is below 2^21 (a small whole number, a power of ten up to 1e9) divides
\* limb by limb, any other bit by bit
FDiv(a, b) ==
    IF IsNaN(a) \/ IsNaN(b) THEN NaN
    ELSE IF IsNum(a) /\ IsNum(b) THEN
        IF b.s = 0 THEN (IF a.s > 0 THEN Inf ELSE IF a.s < 0 THEN NegInf ELSE NaN)
        ELSE IF a.s = 0 THEN Zero
        ELSE IF BitLen(a.m) <= WORD_BITS /\ BitLen(b.m) <= WORD_BITS
                /\ BigToInt(a.m) % BigToInt(b.m) = 0
        THEN Finite(NumAt(a.s * b.s * (BigToInt(a.m) \div BigToInt(b.m)), a.e - b.e))
        ELSE IF BitLen(b.m) <= 2 * LIMB_BITS + 1
        THEN RoundQuotient(a.s * b.s, BigDivRem(BigShl(a.m, 8 * LIMB_BITS), BigToInt(b.m)),
                           a.e - b.e - 8 * LIMB_BITS)
        ELSE DivAligned(a.s * b.s, a.m, b.m, BitLen(a.m) - BitLen(b.m), a.e - b.e)
    ELSE IF IsNum(b) THEN (IF Sign(a) * (IF b.s < 0 THEN -1 ELSE 1) > 0 THEN Inf ELSE NegInf)
    ELSE IF IsNum(a) THEN Zero
    ELSE NaN

LessAligned(s, c) == IF s > 0 THEN c < 0 ELSE c > 0

CmpAligned(al) == BigCmp(al.x, al.y)

LessAt(a, b, e0) ==
    IF Fits(a, a.e - e0) /\ Fits(b, b.e - e0)
    THEN Word(a, a.e - e0) < Word(b, b.e - e0)
    ELSE LessAligned(a.s, CmpAligned(AlignedAt(a, b, e0)))

\* a < b on numbers and infinities
FLess(a, b) ==
    IF a.k = "-inf" THEN b.k # "-inf"
    ELSE IF b.k = "inf" THEN a.k # "inf"
    ELSE IF a.k = "inf" \/ b.k = "-inf" THEN FALSE
    ELSE IF a.s # b.s THEN a.s < b.s
    ELSE IF a.s = 0 THEN FALSE
    ELSE LessAt(a, b, IF a.e < b.e THEN a.e ELSE b.e)

\* the base-4 digit t of n, digit 0 the lowest
Digit4(n, t) == (n[t \div (LIMB_BITS \div 2) + 1] \div 4^(t % (LIMB_BITS \div 2))) % 4

\* one bit of the square root of n, from its base-4 digit t: p.root holds
\* the bits found, p.rem what is left of the digits taken
SqrtStep(n, p, t) ==
    LET r == BigMulC(p.rem, 4, Digit4(n, t))
        trial == BigMulC(p.root, 4, 1)
    IN  IF BigCmp(r, trial) >= 0
        THEN [root |-> BigMulC(p.root, 2, 1), rem |-> BigSub(r, trial)]
        ELSE [root |-> BigMulC(p.root, 2, 0), rem |-> r]

\* the steps for the digits hi down to lo, the upper half of them first;
\* the digits below digit z are zero, and with nothing left there so are
\* the root's remaining bits
RECURSIVE SqrtLoop(_, _, _, _, _)
SqrtLoop(n, p, hi, lo, z) ==
    IF p.rem = <<>> /\ hi < z THEN [root |-> BigShl(p.root, hi - lo + 1), rem |-> <<>>]
    ELSE IF hi = lo THEN SqrtStep(n, p, hi)
    ELSE SqrtLoop(n, SqrtLoop(n, p, hi, (hi + lo) \div 2 + 1, z), (hi + lo) \div 2, lo, z)

RoundRoot(r, E) == Round(1, r.root, E, r.rem # <<>>)

\* the square root of n * 2^E for an even E, n having sh trailing zero bits
SqrtOf(n, sh, E) ==
    RoundRoot(SqrtLoop(n, [root |-> <<>>, rem |-> <<>>], (BitLen(n) - 1) \div 2, 0, sh \div 2),
              E \div 2)

\* the root of m * 2^k, k making the exponent e - k even
SqrtShifted(a, k) ==
    SqrtOf(BigShl(a.m, k + ((a.e - k) % 2)), k + ((a.e - k) % 2), a.e - k - ((a.e - k) % 2))

\* sqrt, correctly rounded: the root of the mantissa widened to 110 or 111 bits
FSqrt(a) ==
    IF ~IsNum(a) THEN (IF a.k = "inf" THEN Inf ELSE NaN)
    ELSE IF a.s < 0 THEN NaN
    ELSE IF a.s = 0 THEN Zero
    ELSE SqrtShifted(a, 2 * PRECISION + 4 - BitLen(a.m))

RintHalf(s, q, st) ==
    Pack(s, IF q.r = 1 /\ (st \/ (q.q # <<>> /\ Head(q.q) % 2 = 1))
            THEN BigAdd(q.q, <<1>>) ELSE q.q, 0)

RintShifted(s, sh) == RintHalf(s, BigDivRem(sh.q, 2), sh.sticky)

\* np.rint: the nearest whole number, ties to even
Rint(a) == IF ~IsNum(a) \/ a.e >= 0 THEN a ELSE RintShifted(a.s, BigShr(a.m, -a.e - 1))

\* np.round(a, decimals) for decimals > 0: rint(a * 10^decimals) / 10^decimals
RoundScaled(a, p) == FDiv(Rint(FMul(a, p)), p)

round(a, decimals) == RoundScaled(a, Num(10^decimals))

(***************************************************************************)
(* Country mapping.                                                        *)
(***************************************************************************)
COUNTRY_MAPPING ==
    << <<"Bangladesh", "BGD">>, <<"Bhutan", "BTN">>, <<"Sri Lanka", "LKA">>,
       <<"Maldives", "MDV">>, <<"Myanmar", "MMR">>, <<"Nepal", "NPL">> >>

NumCountries == Len(COUNTRY_MAPPING)
CountryName(j) == COUNTRY_MAPPING[j][1]
CountryCode(j) == COUNTRY_MAPPING[j][2]
CountryNames == {CountryName(j) : j \in 1..NumCountries}
CountryCodes == {CountryCode(j) : j \in 1..NumCountries}

\* Python string order of the display names (used by sort_values and groupby)
NameRank(name) ==
    CASE name = "Bangladesh" -> 1
      [] name = "Bhutan" -> 2
      [] name = "Maldives" -> 3
      [] name = "Myanmar" -> 4
      [] name = "Nepal" -> 5
      [] name = "Sri Lanka" -> 6

(***************************************************************************)
(* The spreadsheets the loader may find.  A raw row is one spreadsheet     *)
(* line [year, data]; an empty data cell reads as NaN, text as Text.       *)
(***************************************************************************)
Raw(y, v) == [year |-> y, data |-> v]

Workbooks(code) ==
    CASE code = "BGD" -> { << Raw(Num(2019), Num(150)), Raw(Num(2018), Num(100)),
                              Raw(Num(2020), Num(120)) >> }
      [] code = "BTN" -> { << Raw(Num(2018), Num(0)), Raw(Num(2019), Num(100)) >> }
      [] code = "LKA" -> { << Raw(Num(2019), Num(40)), Raw(Num(2019), Num(40)) >>,
                           << Raw(Num(2019), NaN) >> }
      [] code = "MDV" -> { << Raw(Num(2018), Num(150)), Raw(Num(2020), NaN) >> }
      [] code = "MMR" -> { << Raw(Num(2018), Num(60)), Raw(Num(2019), Text),
                              Raw(Num(2020), Num(90)) >> }
      [] code = "NPL" -> { << Raw(Num(2020), Num(30)), Raw(Num(2018), Num(30)) >>,
                           << Raw(Text, Num(30)) >>,
                           << Raw(Num(5), Num(30)) >> }

\* what load_country_data returns: a table, or None after a failed read
Loaded(df) == [ok |-> TRUE, rows |-> df]
Fail == [ok |-> FALSE, rows |-> <<>>]

\* a table, or Python's None
DataFrame(rows) == [none |-> FALSE, rows |-> rows]
NoneValue == [none |-> TRUE, rows |-> <<>>]

(***************************************************************************)
(* Dataset Loader.                                                         *)
(***************************************************************************)
\* load_country_data: the outcomes of reading one country's file
load_country_data(code) == {Fail} \cup {Loaded(df) : df \in Workbooks(code)}

\* df['Country'] = country_name; df['Country_Code'] = country_code
Tag(df, name, code) ==
    [j \in 1..Len(df) |->
        [year |-> df[j].year, data |-> df[j].data,
         Country |-> name, Country_Code |-> code]]

RECURSIVE ConcatReversed(_)
ConcatReversed(dfs) ==
    IF dfs = <<>> THEN <<>> ELSE ConcatReversed(Tail(dfs)) \o Head(dfs)

\* pd.concat(all_data, ignore_index=True): rows in list order, index 0..n-1
RECURSIVE Concat(_)
Concat(dfs) ==
    IF dfs = <<>> THEN <<>> ELSE Head(dfs) \o Concat(Tail(dfs))

Reindex(rows) ==
    [j \in 1..Len(rows) |->
        [idx |-> j - 1, year |-> rows[j].year, data |-> rows[j].data,
         Country |-> rows[j].Country, Country_Code |-> rows[j].Country_Code]]

CombineNeverNone(dfs) == DataFrame(Reindex(Concat(dfs)))

\* the tail of load_all_data: the combined table, or None when nothing loaded
Combine(dfs) == IF dfs # <<>> THEN DataFrame(Reindex(Concat(dfs))) ELSE NoneValue

(***************************************************************************)
(* Preprocessor.                                                           *)
(***************************************************************************)
\* df.dropna(): drop every row holding a missing value in any column
dropna(df) == SelectSeq(df, LAMBDA r : ~IsNaN(r.year) /\ ~IsNaN(r.data))

\* pd.to_datetime(..., format='%Y') accepts a whole-number cell whose
\* decimal digits are a four-digit year inside the range of a nanosecond
\* Timestamp (1677-09-21 to 2262-04-11); any other cell raises
ParsesAsYear(v) == IsInt(v) /\ IntValue(v) >= 1678 /\ IntValue(v) <= 2262

\* pd.to_datetime(df['year'], format='%Y') raises on the first bad value
to_datetime_raises(df) == \E j \in 1..Len(df) : ~ParsesAsYear(df[j].year)

\* the calendar year of the parsed timestamp (year-01-01)
to_datetime(v) == IntValue(v)

\* pd.to_numeric(..., errors='coerce'): text becomes NaN
to_numeric(v) == IF IsNum(v) THEN v ELSE NaN

\* (Country, year) ascending: r sorts strictly before q
RowBefore(r, q) ==
    \/ NameRank(r.Country) < NameRank(q.Country)
    \/ r.Country = q.Country /\ r.year < q.year

RECURSIVE InsertRow(_, _)
InsertRow(s, r) ==
    IF s = <<>> THEN <<r>>
    ELSE IF RowBefore(r, s[Len(s)]) THEN Append(InsertRow(SubSeq(s, 1, Len(s) - 1), r), s[Len(s)])
    ELSE Append(s, r)

RECURSIVE SortPrefix(_, _)
SortPrefix(df, m) == IF m = 0 THEN <<>> ELSE InsertRow(SortPrefix(df, m - 1), df[m])

\* df.sort_values(['Country', 'year']): stable, rows keep their index labels
sort_values(df) == SortPrefix(df, Len(df))

\* the fill pct_change applies first: "pad" up to pandas 2.x (forward fill
\* inside the group), no fill from pandas 3
FillMethods == {"pad", "none"}

\* positions before j that belong to j's group
GroupBefore(df, j) == {m \in 1..(j - 1) : df[m].Country = df[j].Country}

\* groupby('Country').shift(1): the previous position of the same group
Shifted(df, j) ==
    LET b == GroupBefore(df, j)
    IN  IF b = {} THEN {} ELSE {CHOOSE m \in b : \A q \in b : q <= m}

\* groupby('Country').ffill(): the last present value at or before j in the group
Filled(df, j, fm) ==
    IF fm = "none" \/ ~IsNaN(df[j].data) THEN df[j].data
    ELSE LET b == {m \in GroupBefore(df, j) : ~IsNaN(df[m].data)}
         IN  IF b = {} THEN NaN ELSE df[CHOOSE m \in b : \A q \in b : q <= m].data

\* groupby('Country')['data'].pct_change() * 100 at position j
pct_change(df, j, fm) ==
    LET s == Shifted(df, j)
    IN  IF s = {} THEN NaN
        ELSE LET p == CHOOSE m \in s : TRUE
             IN  FMul(FSub(FDiv(Filled(df, j, fm), Filled(df, p, fm)), Num(1)), Num(100))

Row(idx, country, code, year, data, growth) ==
    [idx |-> idx, Country |-> country, Country_Code |-> code,
     year |-> year, data |-> data, growth |-> growth]

\* preprocess_data after the year parse succeeded
preprocess_data(df, fm) ==
    LET kept == dropna(df)
        typed == [j \in 1..Len(kept) |->
                    Row(kept[j].idx, kept[j].Country, kept[j].Country_Code,
                        to_datetime(kept[j].year), to_numeric(kept[j].data), NaN)]
        sorted == sort_values(typed)
    IN  [j \in 1..Len(sorted) |->
            Row(sorted[j].idx, sorted[j].Country, sorted[j].Country_Code,
                sorted[j].year, sorted[j].data, pct_change(sorted, j, fm))]

(***************************************************************************)
(* Filter Engine.                                                          *)
(***************************************************************************)
filter_exclusive_hi(df, sel, yr) ==
    SelectSeq(df, LAMBDA r : r.Country \in sel /\ r.year >= yr[1] /\ r.year < yr[2])

\* all_data[isin(selected_countries) & (year >= lo) & (year <= hi)]
filter(df, sel, yr) ==
    SelectSeq(df, LAMBDA r : r.Country \in sel /\ r.year >= yr[1] /\ r.year <= yr[2])

Years(df) == {df[j].year : j \in 1..Len(df)}
Min(S) == CHOOSE x \in S : \A y \in S : x <= y
Max(S) == CHOOSE x \in S : \A y \in S : x >= y

(***************************************************************************)
(* Aggregation layer.                                                      *)
(***************************************************************************)
BILLION == 1000000000
MILLION == 1000000
TOP_N == 10

\* acc + a[lo] + ... + a[hi], left to right
RECURSIVE SeqAdd(_, _, _, _)
SeqAdd(acc, a, lo, hi) ==
    IF lo > hi THEN acc ELSE SeqAdd(FAdd(acc, a[lo]), a, lo + 1, hi)

\* a[j] + a[8 + j] + ... over the first b blocks of eight
RECURSIVE Lane(_, _, _)
Lane(a, j, b) == IF b = 1 THEN a[j] ELSE FAdd(Lane(a, j, b - 1), a[8 * (b - 1) + j])

\* ((r1 + r2) + (r3 + r4)) + ((r5 + r6) + (r7 + r8)) for lo = 1, hi = 8
RECURSIVE PairTree(_, _, _)
PairTree(r, lo, hi) ==
    IF lo = hi THEN r[lo]
    ELSE FAdd(PairTree(r, lo, (lo + hi) \div 2), PairTree(r, (lo + hi) \div 2 + 1, hi))

\* ndarray.sum() of a float64 array: numpy's pairwise summation (plain
\* below 8 values, eight running sums up to 128, halves above)
RECURSIVE pairwise_sum(_)
pairwise_sum(a) ==
    IF Len(a) <= 128 THEN
        SeqAdd(IF Len(a) < 8 THEN Zero
               ELSE PairTree([j \in 1..8 |-> Lane(a, j, Len(a) \div 8)], 1, 8),
               a, IF Len(a) < 8 THEN 1 ELSE 8 * (Len(a) \div 8) + 1, Len(a))
    ELSE FAdd(pairwise_sum(SubSeq(a, 1, (Len(a) \div 2) - ((Len(a) \div 2) % 8))),
              pairwise_sum(SubSeq(a, (Len(a) \div 2) - ((Len(a) \div 2) % 8) + 1, Len(a))))

\* Series.sum(): NaN counted as 0, 0 for an empty series
sum(vals) == pairwise_sum([j \in 1..Len(vals) |-> IF IsNaN(vals[j]) THEN Zero ELSE vals[j]])

Count(vals) == Cardinality({j \in 1..Len(vals) : ~IsNaN(vals[j])})

\* Series.mean(): NaN skipped (infinities are not), NaN for no value
mean(vals) == IF Count(vals) = 0 THEN NaN ELSE FDiv(sum(vals), Num(Count(vals)))

Column(df, f) == [j \in 1..Len(df) |-> df[j][f]]

\* positions holding the largest present value of a series
MaxPositions(vals, S) == {j \in S : \A m \in S : ~FLess(vals[j], vals[m])}

Present(vals) == {j \in 1..Len(vals) : ~IsNaN(vals[j])}

\* Series.idxmax() raises (or yields a label .loc rejects) when no value is present
idxmax_raises(vals) == Present(vals) = {}

\* Series.idxmax(): the first position of the maximum, NaN skipped
idxmax(vals) == Min(MaxPositions(vals, Present(vals)))

\* groupby('Country'): the groups, in sorted key order
Groups(df) == {df[j].Country : j \in 1..Len(df)}

GroupRows(df, c) == SelectSeq(df, LAMBDA r : r.Country = c)

\* the compensated (Kahan) summation of the groupby sum and mean kernels:
\* the present values in row order; a compensation that is NaN (after an
\* infinite value) is reset
KahanStore(t, c) == [sumx |-> t, compensation |-> IF IsNaN(c) THEN Zero ELSE c]

KahanAdded(p, y, t) == KahanStore(t, FSub(FSub(t, p.sumx), y))

KahanCorrected(p, y) == KahanAdded(p, y, FAdd(p.sumx, y))

\* y = val - compensation; t = sumx + y; compensation = t - sumx - y; sumx = t
KahanStep(p, val) == IF IsNaN(val) THEN p ELSE KahanCorrected(p, FSub(val, p.compensation))

RECURSIVE KahanPrefix(_, _)
KahanPrefix(vals, m) ==
    IF m = 0 THEN [sumx |-> Zero, compensation |-> Zero]
    ELSE KahanStep(KahanPrefix(vals, m - 1), vals[m])

kahan_sum(vals) == KahanPrefix(vals, Len(vals)).sumx

\* groupby('Country')['data'].sum()
group_sum(df) == [c \in Groups(df) |-> kahan_sum(Column(GroupRows(df, c), "data"))]

\* groupby('Country')['data'].sum().idxmax(): first maximum in key order
group_idxmax(sums) ==
    LET best == {c \in DOMAIN sums : \A e \in DOMAIN sums : ~FLess(sums[c], sums[e])}
    IN  CHOOSE c \in best : \A e \in best : NameRank(c) <= NameRank(e)

\* the groupby mean: NaN skipped, NaN for a group with no value
group_mean(vals) ==
    IF Count(vals) = 0 THEN NaN ELSE FDiv(kahan_sum(vals), Num(Count(vals)))

\* the groupby variance kernel (Welford's update over the present values in
\* row order): the running mean and the sum of squared deviations
WelfordStore(p, val, mu) ==
    [nobs |-> p.nobs + 1, mean |-> mu,
     out |-> FAdd(p.out, FMul(FSub(val, mu), FSub(val, p.mean)))]

\* nobs += 1; mean += (val - oldmean) / nobs; out += (val - mean) * (val - oldmean)
WelfordStep(p, val) ==
    IF IsNaN(val) THEN p
    ELSE WelfordStore(p, val, FAdd(p.mean, FDiv(FSub(val, p.mean), Num(p.nobs + 1))))

RECURSIVE WelfordPrefix(_, _)
WelfordPrefix(vals, m) ==
    IF m = 0 THEN [nobs |-> 0, mean |-> Zero, out |-> Zero]
    ELSE WelfordStep(WelfordPrefix(vals, m - 1), vals[m])

\* the groupby std (ddof = 1): NaN for fewer than two values
StdOf(w) == IF w.nobs <= 1 THEN NaN ELSE FSqrt(FDiv(w.out, Num(w.nobs - 1)))

group_std(vals) == StdOf(WelfordPrefix(vals, Len(vals)))

\* the groupby min and max: NaN skipped, NaN for a group with no value
group_min(vals) ==
    IF Present(vals) = {} THEN NaN
    ELSE vals[CHOOSE j \in Present(vals) : \A q \in Present(vals) : ~FLess(vals[q], vals[j])]

group_max(vals) ==
    IF Present(vals) = {} THEN NaN
    ELSE vals[CHOOSE j \in Present(vals) : \A q \in Present(vals) : ~FLess(vals[j], vals[q])]

\* groupby('Country')['YoY Growth %'].agg(['mean', 'std', 'min', 'max']).round(2)
group_growth_stats(df) ==
    [c \in Groups(df) |->
        LET g == Column(GroupRows(df, c), "growth")
        IN  [mean |-> round(group_mean(g), 2), std |-> round(group_std(g), 2),
             min |-> round(group_min(g), 2), max |-> round(group_max(g), 2)]]

pivot_table_first(df) ==
    LET cell(y, c) == SelectSeq(df, LAMBDA r : r.year = y /\ r.Country = c)
    IN  [index |-> Years(df), columns |-> Groups(df),
         cells |-> [yc \in Years(df) \X Groups(df) |->
                      IF Len(cell(yc[1], yc[2])) = 0 THEN Zero
                      ELSE to_numeric(cell(yc[1], yc[2])[1].data)]]

\* pivot_table(index='year', columns='Country', values='data',
\*             aggfunc='sum').fillna(0)
pivot_table(df) ==
    LET cell(y, c) == SelectSeq(df, LAMBDA r : r.year = y /\ r.Country = c)
    IN  [index |-> Years(df), columns |-> Groups(df),
         cells |-> [yc \in Years(df) \X Groups(df) |->
                      IF Len(cell(yc[1], yc[2])) = 0 THEN Zero
                      ELSE kahan_sum(Column(cell(yc[1], yc[2]), "data"))]]

\* sort_values(ascending=False) of the present values: descending, the
\* order among equal values left open by the unstable default sort
RECURSIVE DescOrders(_, _)
DescOrders(vals, S) ==
    IF S = {} THEN {<<>>}
    ELSE UNION {{<<p>> \o t : t \in DescOrders(vals, S \ {p})} : p \in MaxPositions(vals, S)}

\* the stable descending order (mergesort on the negated values)
RECURSIVE StableDesc(_, _)
StableDesc(vals, S) ==
    IF S = {} THEN <<>>
    ELSE LET p == Min(MaxPositions(vals, S))
         IN  <<p>> \o StableDesc(vals, S \ {p})

Missing(vals) == SelectSeq([j \in 1..Len(vals) |-> j], LAMBDA j : IsNaN(vals[j]))

Take(s, m) == SubSeq(s, 1, IF Len(s) < m THEN Len(s) ELSE m)

\* DataFrame.nlargest(n, 'data'): the position orders it can return
nlargest(df, n) ==
    LET vals == Column(df, "data")
        orders == IF n >= Len(df)
                  THEN {o \o Missing(vals) : o \in DescOrders(vals, Present(vals))}
                  ELSE {Take(Take(StableDesc(vals, Present(vals)), n) \o Missing(vals), n)}
    IN  {[j \in 1..Len(o) |-> df[o[j]]] : o \in {Take(o, n) : o \in orders}}

(***************************************************************************)
(* The script, step by step.                                               *)
(***************************************************************************)
Unset == [k |-> "unset", s |-> 0, m |-> <<>>, e |-> 0]
NoSelection == {None}
NoPivot == [index |-> {}, columns |-> {}, cells |-> <<>>]
NoReport == [generated |-> FALSE, total_debt |-> Unset, avg_debt |-> Unset,
             top_debtor |-> None, max_debt_year |-> 0, avg_growth |-> Unset]

FAILED_TO_LOAD == "Failed to load data. Please check if the data files are available."
SELECT_A_COUNTRY == "Please select at least one country to analyze."

\* the uncaught exceptions that end a run, by the statement raising them
YearFormatError == "ValueError: time data does not match format %Y"
NaNToIntError == "ValueError: cannot convert float NaN to integer"
SliderRangeError == "StreamlitAPIException: slider min_value must be less than max_value"
EmptyArgmaxError == "ValueError: attempt to get argmax of an empty sequence"

\* the functions of the aggregation layer and the report step
MetricNames == {"total", "growth_mean", "average", "peak_year", "top_debtor",
                "growth_stats", "country_totals", "pivot", "stats_summary",
                "top_n", "top_n_growth", "correlation", "report"}

Init ==
    /\ pc = "load"
    /\ i = 1
    /\ read = [c \in CountryCodes |-> Fail]
    /\ errors = {}
    /\ loaded = <<>>
    /\ all_data = NoneValue
    /\ exception = None
    /\ shown = {}
    /\ invoked = {}
    /\ selected_countries = NoSelection
    /\ year_range = <<>>
    /\ filtered_data = <<>>
    /\ total_debt = Unset
    /\ avg_growth = Unset
    /\ avg_debt = Unset
    /\ max_debt_year = 0
    /\ top_debtor = None
    /\ growth_stats = <<>>
    /\ country_totals = <<>>
    /\ comparison_data = NoPivot
    /\ peak_periods = <<>>
    /\ report = NoReport

widgets == <<selected_countries, year_range>>
metrics == <<total_debt, avg_growth, avg_debt, max_debt_year, top_debtor,
             growth_stats, country_totals, comparison_data, peak_periods, report>>
loader == <<i, read, errors, loaded>>

\* one iteration of the loop of load_all_data: read the file; report and
\* skip the country when the read fails, tag and keep its rows otherwise
LoadCountry ==
    /\ pc = "load"
    /\ i <= NumCountries
    /\ \E df \in load_country_data(CountryCode(i)) :
        /\ read' = [read EXCEPT ![CountryCode(i)] = df]
        /\ IF ~df.ok
           THEN /\ errors' = errors \cup {CountryCode(i)}
                /\ loaded' = loaded
           ELSE /\ errors' = errors
                /\ loaded' = Append(loaded, Tag(df.rows, CountryName(i), CountryCode(i)))
    /\ i' = i + 1
    /\ UNCHANGED <<pc, all_data, exception, shown, invoked, widgets, filtered_data, metrics>>

\* after the loop: concatenate what loaded, or return None
LoadAllData ==
    /\ pc = "load"
    /\ i > NumCountries
    /\ all_data' = Combine(loaded)
    /\ pc' = "load_guard"
    /\ UNCHANGED <<loader, exception, shown, invoked, widgets, filtered_data, metrics>>

\* if all_data is None: st.error(...); st.stop()
LoadGuard ==
    /\ pc = "load_guard"
    /\ IF all_data.none
       THEN /\ shown' = shown \cup {FAILED_TO_LOAD}
            /\ pc' = "stopped"
       ELSE /\ shown' = shown
            /\ pc' = "preprocess"
    /\ UNCHANGED <<loader, all_data, exception, invoked, widgets, filtered_data, metrics>>

\* all_data = preprocess_data(all_data); an exception ends the run
Preprocess ==
    /\ pc = "preprocess"
    /\ invoked' = invoked \cup {"Preprocessor"}
    /\ IF to_datetime_raises(dropna(all_data.rows))
       THEN /\ exception' = YearFormatError
            /\ pc' = "aborted"
            /\ all_data' = all_data
       ELSE /\ \E fm \in FillMethods :
                all_data' = DataFrame(preprocess_data(all_data.rows, fm))
            /\ exception' = exception
            /\ pc' = "controls"
    /\ UNCHANGED <<loader, shown, widgets, filtered_data, metrics>>

\* the sidebar: the multiselect (any subset of the six countries, the first
\* three by default), then the year slider over the table's years
Controls ==
    /\ pc = "controls"
    /\ \E sel \in SUBSET CountryNames :
        /\ selected_countries' = sel
        /\ \/ /\ all_data.rows = <<>>       \* int(min_year) of NaN
              /\ exception' = NaNToIntError
              /\ pc' = "aborted"
              /\ year_range' = year_range
           \/ /\ all_data.rows # <<>>      \* a slider with min_value = max_value
              /\ Min(Years(all_data.rows)) = Max(Years(all_data.rows))
              /\ exception' = SliderRangeError
              /\ pc' = "aborted"
              /\ year_range' = year_range
           \/ /\ all_data.rows # <<>>
              /\ \E lo, hi \in Min(Years(all_data.rows))..Max(Years(all_data.rows)) :
                    /\ lo <= hi
                    /\ year_range' = <<lo, hi>>
              /\ exception' = exception
              /\ pc' = "filter"
    /\ UNCHANGED <<loader, all_data, shown, invoked, filtered_data, metrics>>

\* filtered_data = all_data[...]
Filter ==
    /\ pc = "filter"
    /\ filtered_data' = filter(all_data.rows, selected_countries, year_range)
    /\ invoked' = invoked \cup {"FilterEngine"}
    /\ pc' = "main"
    /\ UNCHANGED <<loader, all_data, exception, shown, widgets, metrics>>

\* if len(selected_countries) == 0: st.warning(...)
SelectionGuard ==
    /\ pc = "main"
    /\ IF Cardinality(selected_countries) = 0
       THEN /\ shown' = shown \cup {SELECT_A_COUNTRY}
            /\ pc' = "done"
       ELSE /\ shown' = shown
            /\ pc' = "col1"
    /\ UNCHANGED <<loader, all_data, exception, invoked, widgets, filtered_data, metrics>>

fixed == <<loader, all_data, shown, widgets, filtered_data>>

\* col1: total debt in billions, with the mean growth as its delta
TotalDebt ==
    /\ pc = "col1"
    /\ total_debt' = FDiv(sum(Column(filtered_data, "data")), Num(BILLION))
    /\ avg_growth' = mean(Column(filtered_data, "growth"))
    /\ invoked' = invoked \cup {"total", "growth_mean"}
    /\ pc' = "col2"
    /\ UNCHANGED <<fixed, exception, avg_debt, max_debt_year, top_debtor, growth_stats,
                   country_totals, comparison_data, peak_periods, report>>

\* col2: average debt in millions
AverageDebt ==
    /\ pc = "col2"
    /\ avg_debt' = FDiv(mean(Column(filtered_data, "data")), Num(MILLION))
    /\ invoked' = invoked \cup {"average"}
    /\ pc' = "col3"
    /\ UNCHANGED <<fixed, exception, total_debt, avg_growth, max_debt_year, top_debtor,
                   growth_stats, country_totals, comparison_data, peak_periods, report>>

\* col3: filtered_data.loc[filtered_data['data'].idxmax(), 'year'].year
PeakDebtYear ==
    /\ pc = "col3"
    /\ invoked' = invoked \cup {"peak_year"}
    /\ IF idxmax_raises(Column(filtered_data, "data"))
       THEN /\ exception' = EmptyArgmaxError
            /\ pc' = "aborted"
            /\ max_debt_year' = max_debt_year
       ELSE /\ max_debt_year' = filtered_data[idxmax(Column(filtered_data, "data"))].year
            /\ exception' = exception
            /\ pc' = "col4"
    /\ UNCHANGED <<fixed, total_debt, avg_growth, avg_debt, top_debtor, growth_stats,
                   country_totals, comparison_data, peak_periods, report>>

\* col4: groupby('Country')['data'].sum().idxmax()
TopDebtor ==
    /\ pc = "col4"
    /\ top_debtor' = group_idxmax(group_sum(filtered_data))
    /\ invoked' = invoked \cup {"top_debtor"}
    /\ pc' = "tab1"
    /\ UNCHANGED <<fixed, exception, total_debt, avg_growth, avg_debt, max_debt_year,
                   growth_stats, country_totals, comparison_data, peak_periods, report>>

\* tab1: the trend charts and the growth statistics by country
TrendsTab ==
    /\ pc = "tab1"
    /\ growth_stats' = group_growth_stats(filtered_data)
    /\ invoked' = invoked \cup {"growth_stats"}
    /\ pc' = "tab2"
    /\ UNCHANGED <<fixed, exception, total_debt, avg_growth, avg_debt, max_debt_year,
                   top_debtor, country_totals, comparison_data, peak_periods, report>>

\* tab2: total debt by country
GeographicTab ==
    /\ pc = "tab2"
    /\ country_totals' = group_sum(filtered_data)
    /\ invoked' = invoked \cup {"country_totals"}
    /\ pc' = "tab3"
    /\ UNCHANGED <<fixed, exception, total_debt, avg_growth, avg_debt, max_debt_year,
                   top_debtor, growth_stats, comparison_data, peak_periods, report>>

\* tab3: the year-by-country comparison table and the statistical summary
ComparativeTab ==
    /\ pc = "tab3"
    /\ comparison_data' = pivot_table(filtered_data)
    /\ invoked' = invoked \cup {"pivot", "stats_summary"}
    /\ pc' = "tab4"
    /\ UNCHANGED <<fixed, exception, total_debt, avg_growth, avg_debt, max_debt_year,
                   top_debtor, growth_stats, country_totals, peak_periods, report>>

\* tab4: the peak debt periods, the highest growth periods, the correlation
InsightsTab ==
    /\ pc = "tab4"
    /\ \E top \in nlargest(filtered_data, TOP_N) :
        peak_periods' = [j \in 1..Len(top) |->
                            [idx |-> top[j].idx, Country |-> top[j].Country,
                             year |-> top[j].year, data |-> top[j].data]]
    /\ invoked' = invoked \cup {"top_n", "top_n_growth", "correlation"}
    /\ pc' = "tab5"
    /\ UNCHANGED <<fixed, exception, total_debt, avg_growth, avg_debt, max_debt_year,
                   top_debtor, growth_stats, country_totals, comparison_data, report>>

\* tab5: the report, built when the button is pressed
ReportsTab ==
    /\ pc = "tab5"
    /\ \E pressed \in BOOLEAN :
        IF pressed
        THEN /\ report' = [generated |-> TRUE, total_debt |-> total_debt,
                           avg_debt |-> avg_debt, top_debtor |-> top_debtor,
                           max_debt_year |-> max_debt_year,
                           avg_growth |-> mean(Column(filtered_data, "growth"))]
             /\ invoked' = invoked \cup {"report"}
        ELSE /\ report' = report
             /\ invoked' = invoked
    /\ pc' = "done"
    /\ UNCHANGED <<fixed, exception, total_debt, avg_growth, avg_debt, max_debt_year,
                   top_debtor, growth_stats, country_totals, comparison_data, peak_periods>>

Next ==
    \/ LoadCountry
    \/ LoadAllData
    \/ LoadGuard
    \/ Preprocess
    \/ Controls
    \/ Filter
    \/ SelectionGuard
    \/ TotalDebt
    \/ AverageDebt
    \/ PeakDebtYear
    \/ TopDebtor
    \/ TrendsTab
    \/ GeographicTab
    \/ ComparativeTab
    \/ InsightsTab
    \/ ReportsTab

Spec == Init /\ [][Next]_vars

(***************************************************************************)
(* The preprocessor on arbitrary small spreadsheets: the run starts past   *)
(* the load guard with up to MaxRows rows read for the first two           *)
(* countries, in any order and with any mix of cell contents.              *)
(***************************************************************************)
MaxRows == 3

RawYears == {Num(2018), Num(2019), Text}
RawData == {Num(0), Num(100), Num(150), NaN, Text}
RawRows == {Raw(y, v) : y \in RawYears, v \in RawData}
RawSheets == UNION {[1..m -> RawRows] : m \in 1..MaxRows}

\* the read of a sheet segment: no rows stands for a file that failed to load
ReadOf(rows) == IF rows = <<>> THEN Fail ELSE Loaded(rows)

LoadedList(r) ==
    LET tagged(j) == IF r[CountryCode(j)].ok
                     THEN << Tag(r[CountryCode(j)].rows, CountryName(j), CountryCode(j)) >>
                     ELSE <<>>
    IN  tagged(1) \o tagged(2) \o tagged(3) \o tagged(4) \o tagged(5) \o tagged(6)

InitPre ==
    /\ \E s \in RawSheets : \E m \in 0..Len(s) :
          read = [c \in CountryCodes |->
                    IF c = CountryCode(1) THEN ReadOf(SubSeq(s, 1, m))
                    ELSE IF c = CountryCode(2) THEN ReadOf(SubSeq(s, m + 1, Len(s)))
                    ELSE Fail]
    /\ pc = "preprocess"
    /\ i = NumCountries + 1
    /\ errors = {c \in CountryCodes : ~read[c].ok}
    /\ loaded = LoadedList(read)
    /\ all_data = Combine(loaded)
    /\ exception = None
    /\ shown = {}
    /\ invoked = {}
    /\ selected_countries = NoSelection
    /\ year_range = <<>>
    /\ filtered_data = <<>>
    /\ total_debt = Unset
    /\ avg_growth = Unset
    /\ avg_debt = Unset
    /\ max_debt_year = 0
    /\ top_debtor = None
    /\ growth_stats = <<>>
    /\ country_totals = <<>>
    /\ comparison_data = NoPivot
    /\ peak_periods = <<>>
    /\ report = NoReport

NextPre == Preprocess

SpecPre == InitPre /\ [][NextPre]_vars

(***************************************************************************)
(* Properties.                                                             *)
(***************************************************************************)
LoadDone == i > NumCountries
AllFailed == \A c \in CountryCodes : ~read[c].ok
Canonical == "Preprocessor" \in invoked /\ exception # YearFormatError

\* rows read for the countries before the j-th of COUNTRY_MAPPING
RECURSIVE Offset(_)
Offset(j) == IF j = 1 THEN 0 ELSE Offset(j - 1) + Len(read[CountryCode(j - 1)].rows)

\* C1: whatever subset of the six reads fails, the load completes: every
\* failing country is reported and skipped, and the combined table holds
\* exactly the rows of the countries that loaded, in COUNTRY_MAPPING order
\* and file order, each tagged with its country's name and code (there is
\* no table, but None, when no country loaded).
C1_LoadSkipsFailures ==
    pc = "load_guard" =>
        /\ errors = {c \in CountryCodes : ~read[c].ok}
        /\ all_data.none = AllFailed
        /\ Len(all_data.rows) = Offset(NumCountries + 1)
        /\ \A j \in 1..NumCountries :
             \A q \in 1..Len(read[CountryCode(j)].rows) :
                all_data.rows[Offset(j) + q] =
                    [idx |-> Offset(j) + q - 1,
                     year |-> read[CountryCode(j)].rows[q].year,
                     data |-> read[CountryCode(j)].rows[q].data,
                     Country |-> CountryName(j), Country_Code |-> CountryCode(j)]

C1_Witness ==
    /\ pc = "load_guard"
    /\ errors = {"BTN", "MMR"}
    /\ Len(all_data.rows) > Len(read["BGD"].rows) + Len(read["LKA"].rows)

\* C2: when all six loads fail the load returns None, the failure is shown
\* and the run stops with nothing of the preprocessor, the filter, the
\* metrics or the views executed; the filter runs only after a load in
\* which some country succeeded.
C2_NoDataHalts ==
    /\ (pc # "load" /\ AllFailed) =>
          /\ all_data.none
          /\ invoked = {}
          /\ pc \in {"load_guard", "stopped"}
    /\ pc = "stopped" => (AllFailed /\ FAILED_TO_LOAD \in shown /\ invoked = {})
    /\ "FilterEngine" \in invoked => ~AllFailed

C2_Witness == pc = "stopped" /\ AllFailed /\ errors = CountryCodes

\* C3: in every run with an empty selection no function of the aggregation
\* layer and no report step is invoked, and the run, however it ends, has
\* shown the request for a non-empty selection.
C3_EmptySelectionRefused ==
    selected_countries = {} =>
        /\ invoked \cap MetricNames = {}
        /\ pc \in {"done", "aborted"} => SELECT_A_COUNTRY \in shown

\* the part of C3 that holds in every run: with an empty selection no
\* metric and no report step is invoked, and a run that gets past the
\* sidebar ends at the request
C3_NoMetricInvoked ==
    selected_countries = {} =>
        /\ invoked \cap MetricNames = {}
        /\ pc \in {"aborted", "filter", "main", "done"}
        /\ pc = "done" => SELECT_A_COUNTRY \in shown
        /\ pc = "aborted" => exception \in {NaNToIntError, SliderRangeError}

C3_RequestShown ==
    /\ selected_countries = {}
    /\ pc = "done"
    /\ "FilterEngine" \in invoked
    /\ SELECT_A_COUNTRY \in shown

\* the runs of C3 that end without the request: the sidebar raises before
\* the guard is evaluated
C3_AbortedAtSlider ==
    selected_countries = {} /\ pc = "aborted" /\ exception = SliderRangeError
C3_AbortedAtIntOfNaN ==
    selected_countries = {} /\ pc = "aborted" /\ exception = NaNToIntError

EMPTY_SELECTION == "EmptySelection"

\* C4: the peak-debt-year metric on a filtered view with zero rows fails
\* explicitly with an EmptySelection message, returns no year, and does not
\* abort the rest of the render.
C4_EmptyPeakYearExplicit ==
    ("peak_year" \in invoked /\ filtered_data = <<>>) =>
        /\ max_debt_year = 0
        /\ EMPTY_SELECTION \in shown
        /\ exception = None
        /\ pc # "aborted"

\* C5: a year or debt amount that cannot be parsed is treated as missing:
\* preprocess_data never raises on it and returns a table.
C5_CoercionNeverRaises ==
    "Preprocessor" \in invoked => (exception # YearFormatError /\ pc # "aborted")

\* (cur - prev) / prev * 100 in IEEE arithmetic
GrowthPercent(cur, prev) == FMul(FDiv(FSub(cur, prev), prev), Num(100))

\* equal within floating tolerance: the same value, or two finite values
\* no further apart than 2^-30 (about 1e-9) of the second
Close(a, b) ==
    \/ a = b
    \/ /\ IsNum(a) /\ IsNum(b) /\ b.s # 0
       /\ ~FLess([FAbs(b) EXCEPT !.e = @ - 30], FAbs(FSub(a, b)))

SortedByCountryYear(T) == \A j \in 2..Len(T) : ~RowBefore(T[j], T[j - 1])
FirstOfPartition(T, j) == j = 1 \/ T[j - 1].Country # T[j].Country

\* C6: in (country, year) order the first row of every country has no
\* growth percent and every other row has, within floating tolerance,
\* (cur - prev)/prev*100 with prev the amount of the row just before it
\* (absent when either amount is missing).
C6_GrowthFromPreviousRow ==
    Canonical =>
        /\ SortedByCountryYear(all_data.rows)
        /\ \A j \in 1..Len(all_data.rows) :
             IF FirstOfPartition(all_data.rows, j)
             THEN all_data.rows[j].growth = NaN
             ELSE Close(all_data.rows[j].growth,
                        GrowthPercent(all_data.rows[j].data, all_data.rows[j - 1].data))

\* the part of C6 that holds under either fill: the same, for every row
\* whose own amount and whose predecessor's amount are both present
C6_GrowthFromPresentPreviousRow ==
    Canonical =>
        /\ SortedByCountryYear(all_data.rows)
        /\ \A j \in 1..Len(all_data.rows) :
             IF FirstOfPartition(all_data.rows, j)
             THEN all_data.rows[j].growth = NaN
             ELSE (~IsNaN(all_data.rows[j].data) /\ ~IsNaN(all_data.rows[j - 1].data)) =>
                    Close(all_data.rows[j].growth,
                          GrowthPercent(all_data.rows[j].data, all_data.rows[j - 1].data))

C6_GrowthInsideGroup ==
    /\ Canonical
    /\ Len(all_data.rows) = 3
    /\ all_data.rows[1].Country = "Bangladesh"
    /\ all_data.rows[2].Country = "Bhutan" /\ all_data.rows[2].data = Num(100)
    /\ all_data.rows[3].Country = "Bhutan" /\ all_data.rows[3].growth = Num(50)
    /\ all_data.rows[3].idx < all_data.rows[2].idx

\* the example of C6: Bangladesh 100, 150, 120 for 2018, 2019, 2020 get
\* the growth percents absent, 50 and, within tolerance, -20: the float
\* (120/150 - 1) * 100 is -(20 - 2^-48), i.e. -19.999999999999996
C6_BangladeshExample ==
    (Canonical /\ read["BGD"].ok) =>
        /\ [j \in 1..3 |-> all_data.rows[j].year] = <<2018, 2019, 2020>>
        /\ [j \in 1..3 |-> all_data.rows[j].data] = <<Num(100), Num(150), Num(120)>>
        /\ [j \in 1..2 |-> all_data.rows[j].growth] = <<NaN, Num(50)>>
        /\ Close(all_data.rows[3].growth, Num(-20))
        /\ all_data.rows[3].growth = FNeg(FSub(Num(20), [Num(1) EXCEPT !.e = -48]))
        /\ GrowthPercent(Num(120), Num(150)) = Num(-20)

\* positions of T inside the selection and the year range
Matching(T, S, yr) ==
    {j \in 1..Len(T) : T[j].Country \in S /\ yr[1] <= T[j].year /\ T[j].year <= yr[2]}

\* the q-th smallest member of M
Kth(M, q) == CHOOSE j \in M : Cardinality({m \in M : m <= j}) = q

\* C7: the filtered view is exactly the subsequence of the canonical table
\* whose country is selected and whose year lies in [lo, hi], in the
\* table's order; with all six countries and the full year span it is the
\* table itself.
C7_FilterIsProjection ==
    "FilterEngine" \in invoked =>
        LET T == all_data.rows
            M == Matching(T, selected_countries, year_range)
        IN  /\ Len(filtered_data) = Cardinality(M)
            /\ \A q \in 1..Len(filtered_data) : filtered_data[q] = T[Kth(M, q)]
            /\ (/\ selected_countries = CountryNames
                /\ year_range = <<Min(Years(T)), Max(Years(T))>>) => filtered_data = T

C7_Witness ==
    /\ "FilterEngine" \in invoked
    /\ Len(filtered_data) > 1
    /\ Len(filtered_data) < Len(all_data.rows)
    /\ filtered_data[1] # all_data.rows[1]
    /\ Cardinality(selected_countries) = 2
    /\ year_range[1] = year_range[2]

RECURSIVE SumOver(_, _)
SumOver(f, K) ==
    IF K = {} THEN Num(0)
    ELSE LET x == CHOOSE x \in K : TRUE
         IN  FAdd(f[x], SumOver(f, K \ {x}))

\* C8: the year-by-country pivot summed over all its cells is, within
\* floating tolerance, the total debt of the filtered view, and each of its
\* columns sums to that country's total.
C8_PivotSumsToTotal ==
    "pivot" \in invoked =>
        /\ Close(FDiv(SumOver(comparison_data.cells, DOMAIN comparison_data.cells),
                      Num(BILLION)), total_debt)
        /\ \A c \in comparison_data.columns :
              Close(SumOver(comparison_data.cells, comparison_data.index \X {c}),
                    country_totals[c])
        /\ Close(FDiv(SumOver(country_totals, DOMAIN country_totals), Num(BILLION)),
                 total_debt)

C8_Witness ==
    /\ "pivot" \in invoked
    /\ \E q \in 2..Len(filtered_data) :
          /\ filtered_data[q].year = filtered_data[q - 1].year
          /\ filtered_data[q].Country = filtered_data[q - 1].Country
    /\ \E yc \in DOMAIN comparison_data.cells :
          \A q \in 1..Len(filtered_data) :
             <<filtered_data[q].year, filtered_data[q].Country>> # yc
    /\ \E q \in 1..Len(filtered_data) : IsNaN(filtered_data[q].data)

\* the position in the filtered view of a returned row
PositionOf(r) == CHOOSE j \in 1..Len(filtered_data) : filtered_data[j].idx = r.idx

Returned == {peak_periods[j].idx : j \in 1..Len(peak_periods)}

\* min(10, n) rows of the view, none twice, in descending order of debt
\* (missing amounts last), none smaller than a row left out
TopRows ==
    /\ Len(peak_periods) = (IF Len(filtered_data) < TOP_N THEN Len(filtered_data) ELSE TOP_N)
    /\ Cardinality(Returned) = Len(peak_periods)
    /\ \A j \in 1..Len(peak_periods) :
          \E q \in 1..Len(filtered_data) :
             /\ filtered_data[q].idx = peak_periods[j].idx
             /\ filtered_data[q].Country = peak_periods[j].Country
             /\ filtered_data[q].year = peak_periods[j].year
             /\ filtered_data[q].data = peak_periods[j].data
    /\ \A a, b \in 1..Len(peak_periods) :
          a < b => /\ IsNaN(peak_periods[a].data) => IsNaN(peak_periods[b].data)
                   /\ IsNaN(peak_periods[b].data) \/ ~FLess(peak_periods[a].data, peak_periods[b].data)
    /\ \A q \in 1..Len(filtered_data) :
          (filtered_data[q].idx \notin Returned /\ ~IsNaN(filtered_data[q].data)) =>
             \A j \in 1..Len(peak_periods) :
                /\ ~IsNaN(peak_periods[j].data)
                /\ ~FLess(peak_periods[j].data, filtered_data[q].data)

\* rows of equal debt keep the order they have in the view, and of equal
\* rows the earlier ones are the ones returned
TiesInOriginalOrder ==
    /\ \A a, b \in 1..Len(peak_periods) :
          (a < b /\ peak_periods[a].data = peak_periods[b].data) =>
             PositionOf(peak_periods[a]) < PositionOf(peak_periods[b])
    /\ \A q \in 1..Len(filtered_data) : \A j \in 1..Len(peak_periods) :
          (filtered_data[q].idx \notin Returned /\ filtered_data[q].data = peak_periods[j].data) =>
             PositionOf(peak_periods[j]) < q

C9_TopNStableAboveN ==
    "top_n" \in invoked =>
        /\ TopRows
        /\ Len(filtered_data) > TOP_N => TiesInOriginalOrder

C9_TieAboveN ==
    /\ "top_n" \in invoked
    /\ Len(filtered_data) > TOP_N
    /\ \E a \in 1..(Len(peak_periods) - 1) : peak_periods[a].data = peak_periods[a + 1].data
    /\ \E q \in 1..Len(filtered_data) :
          /\ filtered_data[q].idx \notin Returned
          /\ filtered_data[q].data = peak_periods[TOP_N].data

\* the mean of the finite values of a series, NaN when there is none
mean_finite_only(vals) ==
    LET fin == SelectSeq(vals, IsNum)
    IN  IF Len(fin) = 0 THEN NaN ELSE FDiv(sum(fin), Num(Len(fin)))

\* equal after rounding to two decimals: the same value, or two finite
\* values no further apart than 0.01
WithinCent(a, b) ==
    \/ a = b
    \/ /\ IsNum(a) /\ IsNum(b)
       /\ ~FLess(FDiv(Num(1), Num(100)), FAbs(FSub(a, b)))

\* C10: a growth percent left undefined by a zero previous amount stays out
\* of every growth aggregate: the average growth of the key metric and of
\* the report and the per-country growth mean are taken over the defined
\* finite values only.
C10_UndefinedGrowthExcluded ==
    /\ "growth_mean" \in invoked =>
          Close(avg_growth, mean_finite_only(Column(filtered_data, "growth")))
    /\ "growth_stats" \in invoked =>
          \A c \in DOMAIN growth_stats :
             WithinCent(growth_stats[c].mean,
                        mean_finite_only(Column(GroupRows(filtered_data, c), "growth")))
    /\ report.generated =>
          Close(report.avg_growth, mean_finite_only(Column(filtered_data, "growth")))

====
